---- MODULE Spec2Model ----
(***************************************************************************)
(* Model of whistic_sdk/vendorintakeform.py: the VendorIntakeForm class.   *)
(*                                                                         *)
(* Python values are represented as follows.                               *)
(*   - A str that the code strips (question texts, answers) is a sequence  *)
(*     of chunks: the chunk WS is a run of whitespace, every other chunk   *)
(*     is a run of text that neither starts nor ends with whitespace.      *)
(*     The empty str is <<>>.                                              *)
(*   - A dict whose iteration order the code depends on is a record        *)
(*     [keys, val]: keys is the insertion order, val the mapping.          *)
(*   - A JSON object of the remote document (document, section, control,   *)
(*     question) is a function from the field names it has to values.      *)
(*   - None is the record None where an object is expected and the string  *)
(*     Null where a scalar field is expected.                              *)
(*                                                                         *)
(* A method of the instance is an operator that gives the set of ways the  *)
(* call can end, one for each answer of the collaborators it calls         *)
(* (_make_request_with_retry behind get(), whistic.vendors.domain and      *)
(* whistic.vendors.new): the fields of the instance afterwards, the calls  *)
(* made, and the value returned or the error raised.  An action of Spec    *)
(* is one whole call of a public method; describe() reads no field of the  *)
(* instance and is left out.                                               *)
(***************************************************************************)
EXTENDS Integers, Sequences, FiniteSets, TLC

VARIABLES question_map,        \* self.question_map
          required_questions,  \* self.required_questions
          all_questions,       \* self.all_questions
          pc,                  \* "idle": no call in progress; "returned": a call has ended
          call,                \* the last call made on the instance and its arguments
          ret,                 \* how the last call ended: a returned value or a raised error
          calls,               \* the collaborator calls the last call made, in order
          schema_doc,          \* the fetched document question_map was built from
          first_fetched,       \* the first document a get() of this instance returned
          document             \* the document handed to the indexer (SpecIndexer)

vars == <<question_map, required_questions, all_questions, pc, call, ret, calls,
          schema_doc, first_fetched, document>>

-----------------------------------------------------------------------------
(* Bounds                                                                  *)

MaxSections == 2        \* sections of a generated document
MaxInputEntries == 2    \* entries inserted into a generated InputData

-----------------------------------------------------------------------------
(* Python values                                                           *)

None == [none |-> TRUE]
Null == "None"
WS == " "

Get(d, k, default) == IF k \in DOMAIN d THEN d[k] ELSE default

RECURSIVE lstrip(_)
lstrip(s) == IF s # <<>> /\ Head(s) = WS THEN lstrip(Tail(s)) ELSE s

RECURSIVE rstrip(_)
rstrip(s) ==
    IF s # <<>> /\ s[Len(s)] = WS THEN rstrip(SubSeq(s, 1, Len(s) - 1)) ELSE s

strip(s) == rstrip(lstrip(s))

RECURSIVE Concat(_)
Concat(ss) == IF ss = <<>> THEN <<>> ELSE Head(ss) \o Concat(Tail(ss))

Range(s) == {s[i] : i \in 1..Len(s)}

(* dict: {} , k in d , d[k] = v *)
EmptyDict == [keys |-> <<>>, val |-> <<>>]

Has(d, k) == k \in DOMAIN d.val

Put(d, k, v) ==
    [keys |-> IF Has(d, k) THEN d.keys ELSE Append(d.keys, k),
     val  |-> [x \in (DOMAIN d.val) \cup {k} |-> IF x = k THEN v ELSE d.val[x]]]

-----------------------------------------------------------------------------
(* _build_question_map and _get_required_questions                         *)

RECURSIVE AddQuestions(_, _, _, _)
AddQuestions(m, questions, control, section) ==
    IF questions = <<>> THEN m
    ELSE LET question == Head(questions)
             question_text == strip(Get(question, "text", <<>>))
             m2 == IF question_text # <<>>
                   THEN Put(m, question_text,
                            [question |-> question, control |-> control,
                             section |-> section])
                   ELSE m
         IN AddQuestions(m2, Tail(questions), control, section)

RECURSIVE AddControls(_, _, _)
AddControls(m, controls, section) ==
    IF controls = <<>> THEN m
    ELSE AddControls(AddQuestions(m, Get(Head(controls), "questions", <<>>),
                                  Head(controls), section),
                     Tail(controls), section)

RECURSIVE AddSections(_, _)
AddSections(qm, sections) ==
    IF sections = <<>> THEN qm
    ELSE LET section == Head(sections)
             section_heading == Get(section, "heading", "Unknown Section")
             qm1 == IF ~Has(qm, section_heading)
                    THEN Put(qm, section_heading, EmptyDict) ELSE qm
             qm2 == Put(qm1, section_heading,
                        AddControls(qm1.val[section_heading],
                                    Get(section, "controls", <<>>), section))
         IN AddSections(qm2, Tail(sections))

(* _build_question_map that keeps only the sections it found a question for *)
build_question_map_nonempty(intake_form) ==
    LET qm == AddSections(EmptyDict, Get(intake_form, "sections", <<>>))
        kept == SelectSeq(qm.keys, LAMBDA h : qm.val[h].keys # <<>>)
    IN [keys |-> kept, val |-> [h \in Range(kept) |-> qm.val[h]]]

build_question_map(intake_form) ==
    AddSections(EmptyDict, Get(intake_form, "sections", <<>>))

get_required(qm) ==
    [keys |-> qm.keys,
     val  |-> [section_heading \in DOMAIN qm.val |->
                 LET questions == qm.val[section_heading]
                 IN SelectSeq(questions.keys,
                      LAMBDA question_text :
                        Get(questions.val[question_text].question,
                            "required", FALSE))]]

-----------------------------------------------------------------------------
(* How a call ends, and the instance a call works on                        *)

Return(v) == [kind |-> "return", value |-> v]
Raise(exc, message) == [kind |-> "raise", exc |-> exc, message |-> message]

VendorFormValidationError == "VendorFormValidationError"
TransportError == "TransportError"       \* raised inside _make_request_with_retry
CollaboratorError == "CollaboratorError" \* raised inside whistic.vendors

(* self: the instance's fields, with the collaborator calls made so far *)
Self(qm, rq, sd, cs) ==
    [question_map |-> qm, required_questions |-> rq, schema_doc |-> sd, calls |-> cs]

(* the state a call leaves behind together with how it ended *)
Ended(self, r) == [self |-> self, ret |-> r]

(* a collaborator that raised instead of giving a result *)
Raised == [raised |-> TRUE]

(* a collaborator call and what it gave back *)
Called(self, fn, arg, result) ==
    [self EXCEPT !.calls = Append(@, [fn |-> fn, arg |-> arg, result |-> result])]

-----------------------------------------------------------------------------
(* The remote documents, the collaborators' answers and the callers' inputs *)

VI == "Vendor Information"
Contact == "Contact"
UnknownSection == "Unknown Section"

VendorURL == <<"Vendor URL">>
VendorName == <<"Vendor Name">>
Email == <<"Email">>
Fax == <<"Fax">>

qUrl == [text |-> <<WS, "Vendor URL">>, identifier |-> "q-url", required |-> TRUE,
         type |-> "URL"]
qUrlOptional == [text |-> VendorURL, identifier |-> "q-url"]
qName == [text |-> VendorName, identifier |-> "q-name", answeredTag |-> "tag-name",
          weight |-> "5"]
qNameRequired == [text |-> VendorName, identifier |-> "q-name-1", required |-> TRUE]
qNameAgain == [text |-> <<"Vendor Name", WS>>, identifier |-> "q-name-2",
               required |-> FALSE, language |-> "FRENCH"]
qEmail == [text |-> Email, identifier |-> "q-email", required |-> TRUE,
           questionIdentifier |-> "qi-email"]
qBlank == [text |-> <<WS>>, identifier |-> "q-blank", required |-> TRUE]
qNoText == [identifier |-> "q-notext"]

Control(id, questions) ==
    [identifier |-> id, heading |-> "General", identification |-> "1.1",
     questions |-> questions]

Doc1 ==
    [identifier |-> "version-1",
     sections |-> <<[heading |-> VI, identifier |-> "s-vi",
                     controls |-> <<Control("c-vi", <<qUrl, qName>>)>>],
                    [heading |-> Contact, identifier |-> "s-contact",
                     controls |-> <<Control("c-contact", <<qEmail>>)>>]>>]

Doc2 ==
    [identifier |-> "version-2",
     sections |-> <<[heading |-> VI, identifier |-> "s-vi",
                     controls |-> <<Control("c-vi-1", <<qNameRequired, qUrlOptional>>),
                                    Control("c-vi-2", <<qNameAgain>>)>>],
                    [identifier |-> "s-none",
                     controls |-> <<Control("c-none", <<qBlank, qNoText>>)>>]>>]

Docs == {Doc1, Doc2}

SeqsUpTo(S, n) == UNION {[1..k -> S] : k \in 0..n}

(* the documents handed to the indexer: up to MaxSections sections, each with
   or without a heading and with one of these controls or none *)
GenQuestionLists ==
    {<<>>, <<qNameRequired>>, <<qBlank>>, <<qBlank, qNoText>>,
     <<qNameRequired, qNameAgain>>, <<qNameAgain, qUrl>>}

GenSections ==
    {[heading |-> h, identifier |-> "s-gen", controls |-> <<Control("c-gen", qs)>>] :
        h \in {VI, Contact}, qs \in GenQuestionLists}
    \cup {[identifier |-> "s-gen", controls |-> <<Control("c-gen", qs)>>] :
        qs \in GenQuestionLists}
    \cup {[heading |-> h, identifier |-> "s-gen"] : h \in {VI, Contact}}

GenDocs ==
    {[identifier |-> "version-gen", sections |-> ss] :
        ss \in SeqsUpTo(GenSections, MaxSections)}
    \cup {[identifier |-> "version-gen"]}

(* what _make_request_with_retry gives get() *)
Responses ==
    {[status_code |-> 200, json |-> d] : d \in Docs}
        \cup {[status_code |-> 500], None, Raised}

(* what whistic.vendors.domain and whistic.vendors.new give new() *)
DomainResults == {[identifier |-> "vendor-1"], None, Raised}
CreateResults == {[identifier |-> "vendor-2"], None, Raised}

Answers == {<<>>, <<WS>>, <<"acme.com">>}
InputKeys == {<<VI, VendorURL>>, <<VI, VendorName>>, <<VI, Fax>>,
              <<Contact, Email>>, <<UnknownSection, Fax>>}
InputSections == {VI, Contact, UnknownSection}

(* an entry of a dict literal: a section with one answer, or an empty section *)
Entries ==
    {[section |-> k[1], question |-> <<k[2]>>, answer |-> a] :
        k \in InputKeys, a \in Answers}
    \cup {[section |-> s, question |-> <<>>, answer |-> <<>>] : s \in InputSections}

RECURSIVE FromEntries(_, _)
FromEntries(d, es) ==
    IF es = <<>> THEN d
    ELSE LET e == Head(es)
             old == Get(d.val, e.section, EmptyDict)
             new_section == IF e.question = <<>> THEN old
                            ELSE Put(old, e.question[1], e.answer)
         IN FromEntries(Put(d, e.section, new_section), Tail(es))

InputData == {FromEntries(EmptyDict, es) : es \in SeqsUpTo(Entries, MaxInputEntries)}

-----------------------------------------------------------------------------
(* get                                                                     *)

get(response) ==
    IF response = Raised THEN Raise(TransportError, <<>>)
    ELSE IF response # None /\ response.status_code = 200
         THEN Return(response.json)
         ELSE Return(None)

(* self.get() under every answer of the transport: the ways the fetch can end *)
Fetch(self) ==
    {Ended(Called(self, "get", None, response), get(response)) : response \in Responses}

(* question_map and required_questions set from one fetched document *)
Loaded(self, intake_form) ==
    LET qm == build_question_map(intake_form)
    IN [self EXCEPT !.question_map = qm,
                    !.required_questions = get_required(qm),
                    !.schema_doc = intake_form]

-----------------------------------------------------------------------------
(* validate_input_data                                                     *)

(* Blank without the strip *)
BlankEmptyOnly(v) == v = <<>>

(* line 175: not v or str(v).strip() == "" *)
Blank(v) == v = <<>> \/ strip(v) = <<>>

Part(header, items) == [header |-> header, items |-> items]

InvalidSections(qm, input_data) ==
    SelectSeq(input_data.keys, LAMBDA section_name : ~Has(qm, section_name))

InvalidFields(qm, input_data) ==
    Concat([i \in 1..Len(input_data.keys) |->
        LET section_name == input_data.keys[i]
            section_data == input_data.val[section_name]
        IN IF Has(qm, section_name)
           THEN LET bad == SelectSeq(section_data.keys,
                              LAMBDA field_name : ~Has(qm.val[section_name], field_name))
                IN [j \in 1..Len(bad) |-> <<section_name, bad[j]>>]
           ELSE <<>>])

Provided(input_data, section_name, field) ==
    LET section_data == Get(input_data.val, section_name, EmptyDict)
    IN Has(section_data, field) /\ ~Blank(section_data.val[field])

MissingRequired(rq, input_data) ==
    Concat([i \in 1..Len(rq.keys) |->
        LET section_name == rq.keys[i]
            missing == SelectSeq(rq.val[section_name],
                          LAMBDA required_field :
                            ~Provided(input_data, section_name, required_field))
        IN [j \in 1..Len(missing) |-> <<section_name, missing[j]>>]])

ValidFieldsReport(qm, rq) ==
    [section_name \in DOMAIN qm.val |->
        {<<question_text,
           question_text \in Range(Get(rq.val, section_name, <<>>))>> :
             question_text \in DOMAIN qm.val[section_name].val}]

RequiredChecklist(rq, input_data) ==
    Concat([i \in 1..Len(rq.keys) |->
        LET section_name == rq.keys[i]
            required_fields == rq.val[section_name]
        IN [j \in 1..Len(required_fields) |->
              <<section_name, required_fields[j],
                IF Provided(input_data, section_name, required_fields[j])
                THEN "[PROVIDED]" ELSE "[MISSING]">>]])

(* the three checks with one report at the end instead of a gate after each *)
check_input_data_ungated(qm, rq, input_data) ==
    LET invalid_sections == InvalidSections(qm, input_data)
        invalid_fields == InvalidFields(qm, input_data)
        missing_required == MissingRequired(rq, input_data)
        report == (IF invalid_sections # <<>>
                   THEN <<Part("Invalid sections found", invalid_sections),
                          Part("Valid sections are", DOMAIN qm.val)>> ELSE <<>>)
               \o (IF invalid_fields # <<>>
                   THEN <<Part("Invalid fields found", invalid_fields),
                          Part("Valid fields by section", ValidFieldsReport(qm, rq))>>
                   ELSE <<>>)
               \o (IF missing_required # <<>>
                   THEN <<Part("Missing required fields", missing_required),
                          Part("All required fields by section",
                               RequiredChecklist(rq, input_data))>> ELSE <<>>)
    IN IF report # <<>> THEN Raise(VendorFormValidationError, report)
       ELSE Return(None)

(* lines 139-188: the three checks on a loaded schema *)
check_input_data(qm, rq, input_data) ==
    LET invalid_sections == InvalidSections(qm, input_data)
        invalid_fields == InvalidFields(qm, input_data)
        missing_required == MissingRequired(rq, input_data)
    IN IF invalid_sections # <<>>
       THEN Raise(VendorFormValidationError,
                  <<Part("Invalid sections found", invalid_sections),
                    Part("Valid sections are", DOMAIN qm.val)>>)
       ELSE IF invalid_fields # <<>>
       THEN Raise(VendorFormValidationError,
                  <<Part("Invalid fields found", invalid_fields),
                    Part("Valid fields by section", ValidFieldsReport(qm, rq))>>)
       ELSE IF missing_required # <<>>
       THEN Raise(VendorFormValidationError,
                  <<Part("Missing required fields", missing_required),
                    Part("All required fields by section",
                         RequiredChecklist(rq, input_data))>>)
       ELSE Return(None)

(* lines 132-137 after the fetch *)
validate_load(fetched, input_data) ==
    IF fetched.ret.kind = "raise" THEN {fetched}
    ELSE IF fetched.ret.value = None
    THEN {Ended(fetched.self, Raise(VendorFormValidationError,
              <<Part("Could not retrieve intake form for validation", <<>>)>>))}
    ELSE {Ended(self1, check_input_data(self1.question_map,
                                        self1.required_questions, input_data)) :
             self1 \in {Loaded(fetched.self, fetched.ret.value)}}

(* the ways validate_input_data(input_data) can end *)
validate_input_data(self, input_data) ==
    IF self.question_map = None
    THEN UNION {validate_load(fetched, input_data) : fetched \in Fetch(self)}
    ELSE {Ended(self, check_input_data(self.question_map, self.required_questions,
                                       input_data))}

-----------------------------------------------------------------------------
(* _create_question_response and generate_vendor_submission                *)

Truthy(d, k) == k \in DOMAIN d /\ d[k] # Null /\ d[k] # ""

(* lines 244-272: the "question" part of a response *)
question_part(question, control, section) ==
    [language |-> Get(question, "language", "ENGLISH"),
     type |-> Get(question, "type", "TEXT"),
     text |-> Get(question, "text", Null),
     identifier |-> Get(question, "identifier", Null),
     identification |-> Get(question, "identification", Null),
     options |-> Get(question, "options", <<>>),
     required |-> Get(question, "required", FALSE),
     showNotApplicable |-> Get(question, "showNotApplicable", FALSE),
     answeredTag |-> Get(question, "answeredTag", Null),
     notApplicableTag |-> Get(question, "notApplicableTag", Null),
     questionLevelCommentTag |-> Get(question, "questionLevelCommentTag", Null),
     fileUploadTag |-> Get(question, "fileUploadTag", Null),
     answeredCondition |-> Get(question, "answeredCondition", Null),
     warningCondition |-> Get(question, "warningCondition", Null),
     commentRequiredCondition |-> Get(question, "commentRequiredCondition", Null),
     fileUploadRequiredCondition |->
         Get(question, "fileUploadRequiredCondition", Null),
     control |->
         [identifier |-> Get(control, "identifier", Null),
          heading |-> Get(control, "heading", Null),
          identification |-> Get(control, "identification", Null),
          section |-> [identifier |-> Get(section, "identifier", Null),
                       heading |-> Get(section, "heading", Null)]],
     metadata |-> Get(question, "metadata", Null),
     questionIdentifier |-> Get(question, "questionIdentifier", Null)]

(* response_structure with the question text normalised on the way *)
response_structure_stripped(question_info, answer_value) ==
    [question |-> [question_part(question_info.question, question_info.control,
                                 question_info.section)
                     EXCEPT !.text = strip(@)],
     customFormControlIdentifier |-> Get(question_info.question, "identifier", Null),
     choices |-> IF Truthy(question_info.question, "answeredTag")
                 THEN <<question_info.question["answeredTag"]>> ELSE <<>>,
     answerText |-> answer_value]

(* lines 243-276: the response structure *)
response_structure(question_info, answer_value) ==
    [question |-> question_part(question_info.question, question_info.control,
                                question_info.section),
     customFormControlIdentifier |-> Get(question_info.question, "identifier", Null),
     choices |-> IF Truthy(question_info.question, "answeredTag")
                 THEN <<question_info.question["answeredTag"]>> ELSE <<>>,
     answerText |-> answer_value]

(* create_question_response that skips only the empty answer *)
create_question_response_unstripped(question_info, answer_value) ==
    IF answer_value = <<>> THEN None
    ELSE response_structure(question_info, answer_value)

create_question_response(question_info, answer_value) ==
    IF answer_value = <<>> \/ strip(answer_value) = <<>> THEN None
    ELSE response_structure(question_info, answer_value)

(* lines 213-227: the responses for the known, answered entries of input_data *)
QuestionResponses(qm, input_data) ==
    Concat([i \in 1..Len(input_data.keys) |->
        LET section_name == input_data.keys[i]
            section_data == input_data.val[section_name]
        IN IF Has(qm, section_name)
           THEN Concat([j \in 1..Len(section_data.keys) |->
                    LET question_text == section_data.keys[j]
                        answer_value == section_data.val[question_text]
                    IN IF Has(qm.val[section_name], question_text)
                       THEN LET question_response ==
                                  create_question_response(
                                      qm.val[section_name].val[question_text],
                                      answer_value)
                            IN IF question_response # None
                               THEN <<question_response>> ELSE <<>>
                       ELSE <<>>])
           ELSE <<>>])

(* lines 207-229 *)
build_submission(validated, intake_form, input_data) ==
    IF validated.ret.kind = "raise" THEN validated
    ELSE Ended(validated.self,
           Return([questionnaireVersionIdentifier |-> intake_form["identifier"],
                   questionResponses |->
                       QuestionResponses(validated.self.question_map, input_data)]))

(* lines 195-229 after the fetch, without the test of line 199: the index is
   rebuilt from every fetched document *)
generate_load_rebuilding(fetched, input_data, validate) ==
    IF fetched.ret.kind = "raise" THEN {fetched}
    ELSE IF fetched.ret.value = None
    THEN {Ended(fetched.self, Raise(VendorFormValidationError,
              <<Part("Could not retrieve intake form", <<>>)>>))}
    ELSE UNION {
           {build_submission(validated, fetched.ret.value, input_data) :
              validated \in IF validate THEN validate_input_data(self1, input_data)
                            ELSE {Ended(self1, Return(None))}} :
           self1 \in {Loaded(fetched.self, fetched.ret.value)}}

(* lines 195-229 after the fetch *)
generate_load(fetched, input_data, validate) ==
    IF fetched.ret.kind = "raise" THEN {fetched}
    ELSE IF fetched.ret.value = None
    THEN {Ended(fetched.self, Raise(VendorFormValidationError,
              <<Part("Could not retrieve intake form", <<>>)>>))}
    ELSE UNION {
           {build_submission(validated, fetched.ret.value, input_data) :
              validated \in IF validate THEN validate_input_data(self1, input_data)
                            ELSE {Ended(self1, Return(None))}} :
           self1 \in {IF fetched.self.question_map = None
                      THEN Loaded(fetched.self, fetched.ret.value)
                      ELSE fetched.self}}

(* the ways generate_vendor_submission(input_data, validate) can end *)
generate_vendor_submission(self, input_data, validate) ==
    UNION {generate_load(fetched, input_data, validate) : fetched \in Fetch(self)}

-----------------------------------------------------------------------------
(* get_available_questions, get_required_questions, get_optional_questions *)

(* lines 283-286, 295-298, 304-307: fetch and load; a failed fetch loads nothing *)
FetchAndLoad(self) ==
    {IF fetched.ret.kind = "return" /\ fetched.ret.value # None
     THEN Ended(Loaded(fetched.self, fetched.ret.value), Return(None))
     ELSE fetched : fetched \in Fetch(self)}

DictTruthy(d) == d # None /\ d.keys # <<>>

available_view(e) ==
    IF e.ret.kind = "raise" THEN e
    ELSE IF DictTruthy(e.self.question_map)
    THEN Ended(e.self, Return(
           [keys |-> e.self.question_map.keys,
            val  |-> [section \in DOMAIN e.self.question_map.val |->
                        e.self.question_map.val[section].keys]]))
    ELSE Ended(e.self, Return(EmptyDict))

get_available_questions(self) ==
    {available_view(e) :
        e \in IF self.question_map = None THEN FetchAndLoad(self)
              ELSE {Ended(self, Return(None))}}

required_view(e) ==
    IF e.ret.kind = "raise" THEN e
    ELSE IF DictTruthy(e.self.required_questions)
    THEN Ended(e.self, Return(e.self.required_questions))
    ELSE Ended(e.self, Return(EmptyDict))

get_required_questions(self) ==
    {required_view(e) :
        e \in IF self.required_questions = None THEN FetchAndLoad(self)
              ELSE {Ended(self, Return(None))}}

(* lines 309-314 without the filter of line 313 *)
optional_view_unfiltered(e) ==
    IF e.ret.kind = "raise" THEN e
    ELSE IF DictTruthy(e.self.question_map) /\ DictTruthy(e.self.required_questions)
    THEN Ended(e.self, Return(
           [keys |-> e.self.question_map.keys,
            val  |-> [section \in DOMAIN e.self.question_map.val |->
                        e.self.question_map.val[section].keys]]))
    ELSE Ended(e.self, Return(EmptyDict))

optional_view(e) ==
    IF e.ret.kind = "raise" THEN e
    ELSE IF DictTruthy(e.self.question_map) /\ DictTruthy(e.self.required_questions)
    THEN Ended(e.self, Return(
           [keys |-> e.self.question_map.keys,
            val  |-> [section \in DOMAIN e.self.question_map.val |->
                        SelectSeq(e.self.question_map.val[section].keys,
                          LAMBDA q : q \notin Range(Get(e.self.required_questions.val,
                                                        section, <<>>)))]]))
    ELSE Ended(e.self, Return(EmptyDict))

get_optional_questions(self) ==
    {optional_view(e) :
        e \in IF self.question_map = None \/ self.required_questions = None
              THEN FetchAndLoad(self)
              ELSE {Ended(self, Return(None))}}

-----------------------------------------------------------------------------
(* new                                                                     *)

(* line 335 reading the URL with a placeholder default instead of None *)
FormDomainPlaceholder(form) ==
    Get(Get(form.val, "Vendor Information", EmptyDict).val, <<"Vendor URL">>,
        <<"unknown">>)

(* lines 334-335: form['Vendor Information']['Vendor URL'], falsy when missing *)
FormDomain(form) ==
    Get(Get(form.val, "Vendor Information", EmptyDict).val, <<"Vendor URL">>, <<>>)

(* the test of line 342 with force the wrong way round *)
DomainTakenInverted(force, vendor_domain_data) == force /\ vendor_domain_data # None

(* line 342: the domain is taken and the caller did not force *)
DomainTaken(force, vendor_domain_data) == ~force /\ vendor_domain_data # None

(* new_create that takes any answer of vendors.new for a success *)
new_create_unchecked(generated) ==
    {IF result = Raised
     THEN Ended(Called(generated.self, "vendors.new", generated.ret.value, result),
                Return(FALSE))
     ELSE Ended(Called(generated.self, "vendors.new", generated.ret.value, result),
                Return(TRUE)) :
        result \in CreateResults}

(* lines 360-367 and 372-374: vendors.new is called with the payload *)
new_create(generated) ==
    {IF result = Raised
     THEN Ended(Called(generated.self, "vendors.new", generated.ret.value, result),
                Return(FALSE))
     ELSE Ended(Called(generated.self, "vendors.new", generated.ret.value, result),
                Return(result # None)) :
        result \in CreateResults}

(* lines 353-374: every error raised while the payload is built is caught *)
new_submit(self, form, validate) ==
    UNION {IF generated.ret.kind = "raise"
           THEN {Ended(generated.self, Return(FALSE))}
           ELSE new_create(generated) :
              generated \in generate_vendor_submission(self, form, validate)}

(* lines 347-350 after the fetch *)
new_fetched(fetched, form, validate) ==
    IF fetched.ret.kind = "raise" THEN {fetched}
    ELSE IF fetched.ret.value = None THEN {Ended(fetched.self, Return(FALSE))}
    ELSE new_submit(fetched.self, form, validate)

(* lines 341-350 after vendors.domain *)
new_domain(self, form, force, validate, vendor_domain_data) ==
    IF vendor_domain_data = Raised
    THEN {Ended(Called(self, "vendors.domain", FormDomain(form), vendor_domain_data),
                Raise(CollaboratorError, <<>>))}
    ELSE IF DomainTaken(force, vendor_domain_data)
    THEN {Ended(Called(self, "vendors.domain", FormDomain(form), vendor_domain_data),
                Return(FALSE))}
    ELSE UNION {new_fetched(fetched, form, validate) :
                  fetched \in Fetch(Called(self, "vendors.domain", FormDomain(form),
                                           vendor_domain_data))}

(* the ways new(form, force=force, validate=validate) can end *)
new(self, form, force, validate) ==
    IF FormDomain(form) = <<>> THEN {Ended(self, Return(FALSE))}
    ELSE UNION {new_domain(self, form, force, validate, vendor_domain_data) :
                  vendor_domain_data \in DomainResults}

-----------------------------------------------------------------------------
(* The instance and its caller                                             *)

Init ==
    /\ question_map = None
    /\ required_questions = None
    /\ all_questions = None
    /\ pc = "idle"
    /\ call = None
    /\ ret = None
    /\ calls = <<>>
    /\ schema_doc = None
    /\ first_fetched = None
    /\ document = None

self_now == Self(question_map, required_questions, schema_doc, <<>>)

(* the document of the first get() in cs that returned one (line 47), if any *)
FirstFetched(cs) ==
    LET ok == {i \in 1..Len(cs) : /\ cs[i].fn = "get"
                                  /\ cs[i].result \notin {None, Raised}
                                  /\ cs[i].result.status_code = 200}
    IN IF ok = {} THEN None
       ELSE cs[CHOOSE i \in ok : \A j \in ok : i <= j].result.json

Finish(op, input_data, force, validate, e) ==
    /\ question_map' = e.self.question_map
    /\ required_questions' = e.self.required_questions
    /\ schema_doc' = e.self.schema_doc
    /\ first_fetched' = IF first_fetched # None THEN first_fetched
                        ELSE FirstFetched(e.self.calls)
    /\ calls' = e.self.calls
    /\ ret' = e.ret
    /\ call' = [op |-> op, input_data |-> input_data, force |-> force,
                validate |-> validate]
    /\ pc' = "returned"
    /\ UNCHANGED <<all_questions, document>>

GetAvailableQuestions ==
    /\ pc = "idle"
    /\ \E e \in get_available_questions(self_now) :
          Finish("get_available_questions", None, FALSE, FALSE, e)

GetRequiredQuestions ==
    /\ pc = "idle"
    /\ \E e \in get_required_questions(self_now) :
          Finish("get_required_questions", None, FALSE, FALSE, e)

GetOptionalQuestions ==
    /\ pc = "idle"
    /\ \E e \in get_optional_questions(self_now) :
          Finish("get_optional_questions", None, FALSE, FALSE, e)

ValidateInputData ==
    /\ pc = "idle"
    /\ \E input_data \in InputData :
         \E e \in validate_input_data(self_now, input_data) :
            Finish("validate_input_data", input_data, FALSE, TRUE, e)

GenerateVendorSubmission ==
    /\ pc = "idle"
    /\ \E input_data \in InputData, validate \in BOOLEAN :
         \E e \in generate_vendor_submission(self_now, input_data, validate) :
            Finish("generate_vendor_submission", input_data, FALSE, validate, e)

New ==
    /\ pc = "idle"
    /\ \E form \in InputData, force \in BOOLEAN, validate \in BOOLEAN :
         \E e \in new(self_now, form, force, validate) :
            Finish("new", form, force, validate, e)

(* the caller takes the result and is free to make the next call *)
CallerContinues ==
    /\ pc = "returned"
    /\ pc' = "idle"
    /\ call' = None
    /\ ret' = None
    /\ calls' = <<>>
    /\ UNCHANGED <<question_map, required_questions, all_questions, schema_doc,
                   first_fetched, document>>

Next ==
    \/ GetAvailableQuestions
    \/ GetRequiredQuestions
    \/ GetOptionalQuestions
    \/ ValidateInputData
    \/ GenerateVendorSubmission
    \/ New
    \/ CallerContinues

Spec == Init /\ [][Next]_vars

-----------------------------------------------------------------------------
(* The indexer on its own: _build_question_map and _get_required_questions
   applied to a document                                                   *)

InitIndexer ==
    /\ document \in GenDocs
    /\ question_map = None
    /\ required_questions = None
    /\ all_questions = None
    /\ pc = "idle"
    /\ call = None
    /\ ret = None
    /\ calls = <<>>
    /\ schema_doc = None
    /\ first_fetched = None

IndexDocument ==
    /\ pc = "idle"
    /\ question_map' = build_question_map(document)
    /\ required_questions' = get_required(build_question_map(document))
    /\ schema_doc' = document
    /\ pc' = "returned"
    /\ call' = [op |-> "_build_question_map"]
    /\ UNCHANGED <<all_questions, ret, calls, first_fetched, document>>

NextIndexer == IndexDocument

SpecIndexer == InitIndexer /\ [][NextIndexer]_vars

-----------------------------------------------------------------------------
(* What the claims speak of, read off the state                            *)

CallEnded(op) == pc = "returned" /\ call.op = op

ReturnedValue(op) == CallEnded(op) /\ ret.kind = "return"

RaisedValidation(op) ==
    CallEnded(op) /\ ret.kind = "raise" /\ ret.exc = VendorFormValidationError

Headers == {ret.message[i].header : i \in 1..Len(ret.message)}

Listed(header) ==
    UNION {Range(ret.message[i].items) :
             i \in {j \in 1..Len(ret.message) : ret.message[j].header = header}}

ViolationHeaders ==
    {"Invalid sections found", "Invalid fields found", "Missing required fields"}

(* the input of the last call against the index the instance holds *)
UnknownSections ==
    {s \in DOMAIN call.input_data.val : s \notin DOMAIN question_map.val}

UnknownFields ==
    UNION {{<<s, q>> : q \in {x \in DOMAIN call.input_data.val[s].val :
                                 x \notin DOMAIN question_map.val[s].val}} :
             s \in (DOMAIN call.input_data.val) \cap (DOMAIN question_map.val)}

RequiredPairs ==
    UNION {{<<s, q>> : q \in Range(required_questions.val[s])} :
             s \in DOMAIN required_questions.val}

NonBlank(a) == \E i \in 1..Len(a) : a[i] # WS

Answered(s, q) ==
    /\ s \in DOMAIN call.input_data.val
    /\ q \in DOMAIN call.input_data.val[s].val
    /\ NonBlank(call.input_data.val[s].val[q])

Unanswered == {p \in RequiredPairs : ~Answered(p[1], p[2])}

InputValid == UnknownSections = {} /\ UnknownFields = {} /\ Unanswered = {}

CallsTo(fn) == {i \in 1..Len(calls) : calls[i].fn = fn}

Fetched200(i) ==
    /\ i \in 1..Len(calls)
    /\ calls[i].fn = "get"
    /\ calls[i].result \notin {None, Raised}
    /\ calls[i].result.status_code = 200

-----------------------------------------------------------------------------
(* C1: new(form, force, validate) never raises to its caller: whatever the
   domain lookup, the form fetch and the vendor creation do, raising
   included, the call ends by returning a boolean.  The code calls
   vendors.domain and get() before its try block, so this fails. *)
C1_NewAlwaysReturnsBoolean ==
    CallEnded("new") => ret.kind = "return" /\ ret.value \in BOOLEAN

(* C2: validate_input_data checks unknown sections, then unknown fields, then
   missing required fields, each a hard gate: with an unknown section the
   failure lists every unknown section and reports neither unknown fields nor
   missing required fields; with all sections known and an unknown question
   the failure lists every unknown section.question pair and reports no
   missing required field. *)
C2_PhasesAreGates ==
    (CallEnded("validate_input_data") /\ question_map # None) =>
        /\ UnknownSections # {} =>
              /\ RaisedValidation("validate_input_data")
              /\ Listed("Invalid sections found") = UnknownSections
              /\ Headers \cap ViolationHeaders = {"Invalid sections found"}
        /\ (UnknownSections = {} /\ UnknownFields # {}) =>
              /\ RaisedValidation("validate_input_data")
              /\ Listed("Invalid fields found") = UnknownFields
              /\ Headers \cap ViolationHeaders = {"Invalid fields found"}

C2_Witness ==
    /\ RaisedValidation("validate_input_data")
    /\ question_map # None
    /\ UnknownSections # {}
    /\ Unanswered # {}
    /\ \E s \in DOMAIN call.input_data.val : s \in DOMAIN question_map.val

(* C3: with the schema loaded, validate_input_data succeeds exactly when every
   input section and every input question is in the index and every required
   question has an answer that is neither absent, empty nor whitespace-only;
   when the first two checks pass, every required question that is
   unanswered (section missing, key missing or answer blank) is listed as
   section.question among the missing required fields, and no other is. *)
C3_ValidExactlyWhenComplete ==
    (CallEnded("validate_input_data") /\ question_map # None) =>
        /\ ret.kind = "return" <=> InputValid
        /\ (UnknownSections = {} /\ UnknownFields = {} /\ Unanswered # {}) =>
              /\ RaisedValidation("validate_input_data")
              /\ Listed("Missing required fields") = Unanswered

C3_Witness ==
    /\ RaisedValidation("validate_input_data")
    /\ question_map # None
    /\ \E p \in Listed("Missing required fields") :
          /\ p[1] \in DOMAIN call.input_data.val
          /\ p[2] \in DOMAIN call.input_data.val[p[1]].val
          /\ call.input_data.val[p[1]].val[p[2]] = <<WS>>
    /\ \E p \in Listed("Missing required fields") :
          p[1] \notin DOMAIN call.input_data.val

(* the entries of the input that the index knows and that carry an answer, by
   their position in the input *)
Eligible ==
    UNION {{<<i, j>> : j \in {k \in 1..Len(call.input_data.val[
                                            call.input_data.keys[i]].keys) :
              LET s == call.input_data.keys[i]
                  q == call.input_data.val[s].keys[k]
              IN /\ s \in DOMAIN question_map.val
                 /\ q \in DOMAIN question_map.val[s].val
                 /\ NonBlank(call.input_data.val[s].val[q])}} :
             i \in 1..Len(call.input_data.keys)}

Before(e, f) == e[1] < f[1] \/ (e[1] = f[1] /\ e[2] < f[2])

Rank(e) == Cardinality({f \in Eligible : Before(f, e)}) + 1

(* C4: the payload of generate_vendor_submission has exactly one response for
   each (section, question) of the input that the index knows and whose answer
   is not blank, in the input's iteration order, and none for a blank answer
   or an unknown section or question; with validate=False those are skipped
   and the call does not fail. *)
C4_OneResponsePerAnswer ==
    CallEnded("generate_vendor_submission") =>
        /\ ret.kind = "return" =>
              /\ Len(ret.value.questionResponses) = Cardinality(Eligible)
              /\ \A e \in Eligible :
                    LET s == call.input_data.keys[e[1]]
                        q == call.input_data.val[s].keys[e[2]]
                        r == ret.value.questionResponses[Rank(e)]
                    IN /\ r.answerText = call.input_data.val[s].val[q]
                       /\ strip(r.question.text) = q
                       /\ r.question.control.section.heading = s
        /\ (~call.validate /\ Fetched200(1)) => ret.kind = "return"

C4_Witness ==
    /\ ReturnedValue("generate_vendor_submission")
    /\ ~call.validate
    /\ Len(ret.value.questionResponses) = 1
    /\ \/ UnknownSections # {}
       \/ UnknownFields # {}
       \/ \E s \in DOMAIN call.input_data.val :
             \E q \in DOMAIN call.input_data.val[s].val :
                call.input_data.val[s].val[q] = <<WS>>

(* C5: when a vendor already exists for the form's domain and force is false,
   new() returns False without fetching the form and without calling the
   vendor creation. *)
C5_ExistingDomainStopsNew ==
    (/\ CallEnded("new")
     /\ ~call.force
     /\ 1 \in CallsTo("vendors.domain")
     /\ calls[1].result \notin {None, Raised}) =>
        /\ ret = Return(FALSE)
        /\ CallsTo("get") = {}
        /\ CallsTo("vendors.new") = {}

C5_Witness ==
    /\ CallEnded("new")
    /\ ~call.force
    /\ Len(calls) = 1
    /\ calls[1].fn = "vendors.domain"
    /\ calls[1].result \notin {None, Raised}
    /\ ret = Return(FALSE)

(* C6: vendors.new is called at most once per new(), and only after the domain
   check passed (or force), the form was fetched and the payload was built,
   with the input valid when validate is true; a validation failure yields
   False with no creation call; and new() returns True exactly when the
   creation call gave a truthy result. *)
C6_CreationOnlyAfterAllChecks ==
    CallEnded("new") =>
        /\ Cardinality(CallsTo("vendors.new")) <= 1
        /\ \A i \in CallsTo("vendors.new") :
              /\ i = Len(calls)
              /\ CallsTo("vendors.domain") = {1}
              /\ calls[1].result # Raised
              /\ call.force \/ calls[1].result = None
              /\ CallsTo("get") = {2, 3}
              /\ Fetched200(2)
              /\ Fetched200(3)
              /\ question_map # None
              /\ call.validate => InputValid
              /\ calls[i].arg.questionnaireVersionIdentifier =
                     calls[3].result.json.identifier
        /\ (call.validate /\ Fetched200(3) /\ ~InputValid) =>
              /\ ret = Return(FALSE)
              /\ CallsTo("vendors.new") = {}
        /\ (ret.kind = "return" /\ ret.value) <=>
              \E i \in CallsTo("vendors.new") : calls[i].result \notin {None, Raised}

C6_Witness ==
    /\ CallEnded("new")
    /\ call.validate
    /\ ret = Return(TRUE)
    /\ CallsTo("vendors.new") # {}

(* C7: with force true new() skips the domain-existence check: vendors.domain
   is queried only when force is false.  The code queries it before it looks
   at force, so this fails. *)
C7_ForceSkipsDomainLookup ==
    (CallEnded("new") /\ call.force) => CallsTo("vendors.domain") = {}

(* C8: validate_input_data and generate_vendor_submission raise
   VendorFormValidationError only for an unknown section, an unknown field or
   a missing required field; a failed or non-200 fetch is not reported as a
   validation failure.  The code raises VendorFormValidationError for a
   failed fetch, so this fails. *)
C8_ValidationErrorOnlyForViolations ==
    (RaisedValidation("validate_input_data")
        \/ RaisedValidation("generate_vendor_submission")) =>
        Headers \cap ViolationHeaders # {}

(* the questions of a document, and the one a response was built for *)
DocSections(doc) == Get(doc, "sections", <<>>)

SectionQuestions(section) ==
    UNION {Range(Get(c, "questions", <<>>)) : c \in Range(Get(section, "controls", <<>>))}

DocQuestions(doc) == UNION {SectionQuestions(sec) : sec \in Range(DocSections(doc))}

SourceQuestion(r) ==
    CHOOSE q \in DocQuestions(schema_doc) :
        "identifier" \in DOMAIN q /\ q.identifier = r.customFormControlIdentifier

(* the fields _create_question_response reads from the question by name *)
CopiedFields ==
    {"language", "type", "text", "identifier", "identification", "options",
     "required", "showNotApplicable", "answeredTag", "notApplicableTag",
     "questionLevelCommentTag", "fileUploadTag", "answeredCondition",
     "warningCondition", "commentRequiredCondition", "fileUploadRequiredCondition",
     "metadata", "questionIdentifier"}

(* C9 as stated: every field present in a question of the fetched document,
   the fields the builder does not know by name included, appears unchanged
   in the question part of the response built for it. *)
C9_EveryFieldPassedThrough ==
    ReturnedValue("generate_vendor_submission") =>
        \A k \in 1..Len(ret.value.questionResponses) :
            LET r == ret.value.questionResponses[k]
            IN \A f \in DOMAIN SourceQuestion(r) :
                  /\ f \in DOMAIN r.question
                  /\ r.question[f] = SourceQuestion(r)[f]

(* C9 as amended: every field of the question that is one of the eighteen the
   builder reads by name appears unchanged in the question part of the
   response; the question part has those eighteen fields and "control" and no
   other, so a field of the question outside the eighteen is dropped. *)
C9_NamedFieldsPassedThrough ==
    ReturnedValue("generate_vendor_submission") =>
        \A k \in 1..Len(ret.value.questionResponses) :
            LET r == ret.value.questionResponses[k]
            IN /\ \A f \in (DOMAIN SourceQuestion(r)) \cap CopiedFields :
                     r.question[f] = SourceQuestion(r)[f]
               /\ DOMAIN r.question = CopiedFields \cup {"control"}

C9_Witness ==
    /\ ReturnedValue("generate_vendor_submission")
    /\ \E k \in 1..Len(ret.value.questionResponses) :
          LET src == SourceQuestion(ret.value.questionResponses[k])
          IN /\ (DOMAIN src) \ CopiedFields # {}
             /\ "answeredTag" \in DOMAIN src

(* the headings of a document, and those whose questions all have blank text *)
HeadingOf(section) ==
    IF "heading" \in DOMAIN section THEN section.heading ELSE "Unknown Section"

Headings(doc) == {HeadingOf(sec) : sec \in Range(DocSections(doc))}

BlankText(q) == "text" \notin DOMAIN q \/ \A i \in 1..Len(q.text) : q.text[i] = WS

HeadingQuestions(doc, h) ==
    UNION {SectionQuestions(sec) :
             sec \in {x \in Range(DocSections(doc)) : HeadingOf(x) = h}}

BlankThroughout(doc) ==
    {h \in Headings(doc) :
        /\ HeadingQuestions(doc, h) # {}
        /\ \A q \in HeadingQuestions(doc, h) : BlankText(q)}

(* C10 as stated: the sections of the index built by _build_question_map are
   the section headings of the document minus the sections in which every
   question has empty (stripped) text. *)
C10_IndexDropsBlankSections ==
    CallEnded("_build_question_map") =>
        DOMAIN question_map.val = Headings(document) \ BlankThroughout(document)

(* C10 as amended: the sections of the index built by _build_question_map are
   the section headings of the document ("Unknown Section" for a section
   without a heading); a section in which every question has empty text is in
   the index too, with no question under it. *)
C10_IndexKeepsEveryHeading ==
    CallEnded("_build_question_map") =>
        /\ DOMAIN question_map.val = Headings(document)
        /\ Range(question_map.keys) = Headings(document)
        /\ \A h \in BlankThroughout(document) : question_map.val[h] = EmptyDict

C10_Witness ==
    /\ CallEnded("_build_question_map")
    /\ BlankThroughout(document) # {}
    /\ "Unknown Section" \in BlankThroughout(document)
    /\ Headings(document) \ BlankThroughout(document) # {}

-----------------------------------------------------------------------------
(* the form of the ended call has no "Vendor URL" under "Vendor Information",
   or has it empty; read from the form itself *)
NoVendorURL ==
    \/ VI \notin DOMAIN call.input_data.val
    \/ /\ VI \in DOMAIN call.input_data.val
       /\ \/ VendorURL \notin DOMAIN call.input_data.val[VI].val
          \/ /\ VendorURL \in DOMAIN call.input_data.val[VI].val
             /\ call.input_data.val[VI].val[VendorURL] = <<>>

(* C11: when form["Vendor Information"]["Vendor URL"] is missing or empty,
   new() returns False and has called no collaborator: no domain lookup, no
   form fetch, no vendor creation. *)
C11_NoURLNoCollaborator ==
    (CallEnded("new") /\ NoVendorURL) =>
        /\ ret = Return(FALSE)
        /\ calls = <<>>
        /\ CallsTo("vendors.domain") = {}
        /\ CallsTo("get") = {}
        /\ CallsTo("vendors.new") = {}

C11_Witness ==
    /\ CallEnded("new")
    /\ VI \in DOMAIN call.input_data.val
    /\ VendorName \in DOMAIN call.input_data.val[VI].val
    /\ NoVendorURL
    /\ ret = Return(FALSE)
    /\ calls = <<>>

-----------------------------------------------------------------------------
(* what each getter gives when called on the instance as it is now *)
AvailableNow == {e.ret.value : e \in get_available_questions(self_now)}
RequiredNow == {e.ret.value : e \in get_required_questions(self_now)}
OptionalNow == {e.ret.value : e \in get_optional_questions(self_now)}

(* within every section, optional is available without required *)
Partition(available, required, optional) ==
    /\ required.keys = available.keys
    /\ optional.keys = available.keys
    /\ DOMAIN required.val = DOMAIN available.val
    /\ DOMAIN optional.val = DOMAIN available.val
    /\ \A section \in DOMAIN available.val :
          /\ optional.val[section] =
                SelectSeq(available.val[section],
                          LAMBDA q : q \notin Range(required.val[section]))
          /\ Range(optional.val[section]) \cap Range(required.val[section]) = {}
          /\ Range(required.val[section]) \subseteq Range(available.val[section])
          /\ Range(optional.val[section]) \cup Range(required.val[section])
                = Range(available.val[section])

(* C12: once the schema is loaded, the three getters answer without a fetch,
   the value a getter has just returned is the one it gives now, and for every
   section get_required_questions and get_optional_questions partition
   get_available_questions: optional is exactly the available texts that are
   not required, the two are disjoint, every required text is available in the
   same section. *)
C12_RequiredOptionalPartition ==
    question_map # None =>
        /\ \A e \in get_available_questions(self_now)
                  \cup get_required_questions(self_now)
                  \cup get_optional_questions(self_now) :
              e.self = self_now /\ e.ret.kind = "return"
        /\ \A available \in AvailableNow : \A required \in RequiredNow :
              \A optional \in OptionalNow :
                 Partition(available, required, optional)
        /\ ReturnedValue("get_available_questions") => AvailableNow = {ret.value}
        /\ ReturnedValue("get_required_questions") => RequiredNow = {ret.value}
        /\ ReturnedValue("get_optional_questions") => OptionalNow = {ret.value}

C12_Witness ==
    /\ ReturnedValue("get_optional_questions")
    /\ question_map # None
    /\ \E required \in RequiredNow : \E section \in DOMAIN ret.value.val :
          /\ required.val[section] # <<>>
          /\ ret.value.val[section] # <<>>

-----------------------------------------------------------------------------
(* the two fields are unset together or set together, before and after *)
BothOrNeither ==
    /\ (question_map = None) <=> (required_questions = None)
    /\ (question_map' = None) <=> (required_questions' = None)

(* once set, the two fields are not assigned again *)
NeverRebuilt ==
    question_map # None =>
        /\ question_map' = question_map
        /\ required_questions' = required_questions

(* the fetches the ending call made *)
GetsMade == {i \in 1..Len(calls') : calls'[i].fn = "get"}

FetchOK(i) ==
    /\ calls'[i].result \notin {None, Raised}
    /\ calls'[i].result.status_code = 200

(* a call that made no fetch, or whose fetches all failed, sets nothing *)
FailedFetchLeavesUnset ==
    (question_map = None /\ \A i \in GetsMade : ~FetchOK(i)) =>
        question_map' = None /\ required_questions' = None

(* the call that sets the fields builds both from the document of its last fetch *)
SetFromLastFetch ==
    (question_map = None /\ question_map' # None) =>
        /\ GetsMade # {}
        /\ LET last == CHOOSE i \in GetsMade : \A j \in GetsMade : j <= i
           IN /\ FetchOK(last)
              /\ question_map' = build_question_map(calls'[last].result.json)
              /\ required_questions' =
                    get_required(build_question_map(calls'[last].result.json))

(* the call that sets the fields builds both from the first document the
   instance ever fetched *)
SetFromFirstFetched ==
    (question_map = None /\ question_map' # None) =>
        /\ first_fetched' # None
        /\ question_map' = build_question_map(first_fetched')
        /\ required_questions' = get_required(build_question_map(first_fetched'))

(* C13 as stated: over any sequence of calls of the six public methods, with
   fetches that may fail and a remote document that may change, question_map
   and required_questions are both unset or both set, are set together from
   the first successfully fetched document, stay unset after a failed fetch,
   and once set are never rebuilt or changed. *)
C13_SetFromFirstFetchedDocument ==
    [][/\ BothOrNeither
       /\ SetFromFirstFetched
       /\ FailedFetchLeavesUnset
       /\ NeverRebuilt]_vars

(* C13 amended: over any sequence of calls of the six public methods, with
   fetches that may fail and a remote document that may change, question_map
   and required_questions are both unset or both set, are set together from
   one successfully fetched document, the one of the last fetch of the call
   that sets them (in new() the second fetch, not the first), stay unset when
   every fetch of a call failed, and once set are never rebuilt or changed. *)
C13_SetOnceFromOneDocument ==
    [][/\ BothOrNeither
       /\ SetFromLastFetch
       /\ FailedFetchLeavesUnset
       /\ NeverRebuilt]_vars

(* the index was built from a document that was not the first one fetched,
   and generate_vendor_submission has since fetched yet another document
   without rebuilding it *)
C13_Witness ==
    /\ question_map # None
    /\ required_questions # None
    /\ first_fetched # None
    /\ first_fetched # schema_doc
    /\ question_map = build_question_map(schema_doc)
    /\ CallEnded("generate_vendor_submission")
    /\ \E i \in CallsTo("get") : Fetched200(i) /\ calls[i].result.json # schema_doc

-----------------------------------------------------------------------------
(* C14: in every payload returned by generate_vendor_submission,
   questionnaireVersionIdentifier is the identifier of the fetched document
   from which the index used for its questionResponses was built, also when
   the remote document changes between two fetches on the same instance. *)
C14_IdentifierOfIndexedDocument ==
    ReturnedValue("generate_vendor_submission") =>
        /\ schema_doc # None
        /\ question_map = build_question_map(schema_doc)
        /\ ret.value.questionnaireVersionIdentifier = schema_doc.identifier

====
